---------------------------- MODULE Spec2Model ----------------------------
(***************************************************************************)
(* DeepCite: the client-side conversation store                            *)
(* (frontend/src/features/chat/stores/chatStore.ts) and the chat pane that *)
(* opens the cited documents (features/chat/components/ChatPane.vue).      *)
(*                                                                         *)
(* The store is a single-threaded object; every exported action runs to    *)
(* completion, except sendMessage, which suspends at `await api.post(...)` *)
(* and resumes when the request settles.  A sendMessage invocation is      *)
(* therefore two steps: SendMessage (the synchronous part up to the await) *)
(* and one of the Settle actions (the continuation: try-rest / catch /     *)
(* finally).  The store's actions may be called in any order by its        *)
(* callers, and a suspended call may resume at any later moment.           *)
(*                                                                         *)
(* A conversation is an object: the closure of a suspended sendMessage     *)
(* keeps its conversation object also after deleteConversation has taken   *)
(* it out of the list.  `heap` holds the objects, `conversations` the list.*)
(* Of a conversation the model keeps id, messages, modelId, chatMode,      *)
(* chatModeLocked, isTemporary and updatedAt; of a message id, role,       *)
(* content and, of an answer, search results and citations.  Titles,       *)
(* workspace and domain selections are not modelled.                       *)
(***************************************************************************)
EXTENDS Integers, Sequences, FiniteSets, TLC

(***************************************************************************)
(* Bound of the model: the runs are all the sequences of at most MaxSteps  *)
(* calls of the store's actions and ticks of the clock, together with the  *)
(* settling, at any moment, of the requests these calls have issued.       *)
(***************************************************************************)
MaxSteps == 5      \* calls of the store's actions, and clock ticks, in a run
MaxLoads == 2      \* calls of loadDocumentForSource suspended together
MaxClicks == 1     \* clicks of a run in which no load is answered
MaxResults == 3    \* search results of a conversation

(***************************************************************************)
(* Values.                                                                 *)
(***************************************************************************)
NoId     == 0                  \* currentConversationId === null
NoError  == "null"             \* error === null
NoMode   == "null"             \* chatMode === null
Missing  == "missing"          \* localStorage.getItem(...) === null

Texts    == {"hi"}                       \* message texts typed by the user
Models   == {"gpt-5", "sonar"}           \* model ids
Modes    == {"normal", "internet"}       \* arguments given to setChatMode
Placeholder == "..."                     \* content of the placeholder message
\* currentPdf === null, as a document without id and bytes
NoPdf    == [id |-> "null", base64Data |-> <<>>]
NoAlert  == "none"             \* no alert() dialog is on screen

VARIABLES
    heap,                   \* conversation objects, by object identity
    conversations,          \* conversations.value: sequence of object identities
    currentConversationId,  \* id of the current conversation or NoId
    selectedModelId,
    chatMode,               \* the store's global chat mode
    isLoading,
    error,
    activeRequests,         \* Set<requestId>
    requestQueue,           \* Map<conversation id, AbortController>; a controller
                            \* is named by the request it was created for
    calls,                  \* sendMessage invocations, by request id
    availableModels,        \* models fetched from the backend
    storage,                \* localStorage
    now,                    \* Date.now()
    nextId,                 \* stands for the unique suffix of generated ids
    steps                   \* calls and ticks made so far

\* The chat pane (ChatPane.vue) and its PDF viewer (usePdfViewer.ts).
VARIABLES
    currentPdf,             \* currentPdf.value: the document shown, or NoPdf
    isViewerOpen,           \* isViewerOpen.value
    highlightPage,          \* highlightPage.value
    loads,                  \* suspended calls of loadDocumentForSource
    alert                   \* the alert() dialog on screen, or NoAlert

storeVars == <<heap, conversations, currentConversationId, selectedModelId,
               chatMode, isLoading, error, availableModels, activeRequests,
               requestQueue, calls, storage, now, nextId, steps>>

paneVars == <<currentPdf, isViewerOpen, highlightPage, loads, alert>>

\* The domain selector of the chat (DomainSelector.vue).
VARIABLES
    selectedDomains,        \* selectedDomains.value: Set<string>
    newDomain               \* newDomain.value: the text of the input box

\* A call of a pure function of the repository.
VARIABLES
    input,                  \* the argument of the call
    output                  \* what the calls made so far returned

selectorVars == <<selectedDomains, newDomain>>

callVars == <<input, output>>

restVars == <<selectorVars, callVars>>

vars == <<storeVars, paneVars, restVars>>

(***************************************************************************)
(* Helpers on sequences and maps.                                          *)
(***************************************************************************)
Range(s) == {s[i] : i \in DOMAIN s}

RemoveAt(s, i) == SubSeq(s, 1, i - 1) \o SubSeq(s, i + 1, Len(s))

MapDelete(m, k) == [x \in DOMAIN m \ {k} |-> m[x]]

MapSet(m, k, v) == [x \in DOMAIN m \cup {k} |-> IF x = k THEN v ELSE m[x]]

EmptyMap == [x \in {} |-> 0]

(***************************************************************************)
(* Computed properties of the store.                                       *)
(***************************************************************************)
\* conversations.value.find(c => c.id === id): the object identity of the
\* first conversation of the list with that id, 0 when there is none.
FindConversation(h, convs, id) ==
    IF \E i \in DOMAIN convs : h[convs[i]].id = id
    THEN convs[CHOOSE i \in DOMAIN convs :
                 /\ h[convs[i]].id = id
                 /\ \A j \in 1..(i - 1) : h[convs[j]].id # id]
    ELSE 0

\* the computed currentConversation (0 stands for null)
CurrentConversation ==
    IF currentConversationId = NoId THEN 0
    ELSE FindConversation(heap, conversations, currentConversationId)

(***************************************************************************)
(* saveToLocalStorage                                                      *)
(***************************************************************************)
PermanentUnfiltered(h, convs) == convs

\* conversations.value.filter(conv => !conv.isTemporary)
PermanentConversations(h, convs) ==
    SelectSeq(convs, LAMBDA o : ~h[o].isTemporary)

\* localStorage after saveToLocalStorage() runs in a store whose objects are
\* h, whose list is convs, whose selected model is model and whose current
\* id is cur.  JSON.stringify writes the field values of each conversation
\* (dates as millisecond-exact ISO strings).  The key
\* 'deepcite-current-conversation' is written here and read nowhere (the
\* read in loadFromLocalStorage is commented out); it is not part of the
\* model's localStorage.
Saved(st, h, convs, model, cur) ==
    LET perm == PermanentConversations(h, convs)
    IN  [st EXCEPT
            !.hasConversations = TRUE,
            !.conversations = [i \in 1..Len(perm) |-> h[perm[i]]],
            !.selectedModel = model]

(***************************************************************************)
(* createNewConversation                                                   *)
(***************************************************************************)
\* the conversation object built at the top of createNewConversation
NewConversation(isTemporary) ==
    [id             |-> nextId,
     messages       |-> <<>>,
     modelId        |-> selectedModelId,
     chatMode       |-> NoMode,
     chatModeLocked |-> FALSE,
     isTemporary    |-> isTemporary,
     updatedAt      |-> now]

\* the clean-up of old empty temporary conversations
PruneTemporary(h, convs, cur) ==
    SelectSeq(convs, LAMBDA o : \/ ~h[o].isTemporary
                                \/ Len(h[o].messages) > 0
                                \/ h[o].id = cur)

CreateNewConversation(isTemporary) ==
    /\ steps < MaxSteps
    /\ steps' = steps + 1
    /\ UNCHANGED <<paneVars, restVars>>
    /\ LET kept == IF isTemporary
                   THEN PruneTemporary(heap, conversations, currentConversationId)
                   ELSE conversations
           h2   == Append(heap, NewConversation(isTemporary))
           cs   == Append(kept, Len(h2))
       IN  /\ heap' = h2
           /\ conversations' = cs
           /\ currentConversationId' = nextId
           /\ storage' = IF isTemporary THEN storage
                         ELSE Saved(storage, h2, cs, selectedModelId, nextId)
    /\ nextId' = nextId + 1
    /\ UNCHANGED <<selectedModelId, chatMode, isLoading, error, availableModels,
                   activeRequests, requestQueue, calls, now>>

(***************************************************************************)
(* selectConversation / deleteConversation                                 *)
(***************************************************************************)
SelectConversation(id) ==
    /\ steps < MaxSteps
    /\ steps' = steps + 1
    /\ UNCHANGED <<paneVars, restVars>>
    /\ LET o == FindConversation(heap, conversations, id)
       IN  /\ o # 0
           /\ currentConversationId' = id
           /\ selectedModelId' = heap[o].modelId
           /\ storage' = IF heap[o].isTemporary THEN storage
                         ELSE Saved(storage, heap, conversations, heap[o].modelId, id)
           /\ UNCHANGED <<heap, conversations, chatMode, isLoading, error,
                          availableModels, activeRequests, requestQueue, calls,
                          now, nextId>>

DeleteConversation(id) ==
    /\ steps < MaxSteps
    /\ steps' = steps + 1
    /\ UNCHANGED <<paneVars, restVars>>
    /\ LET o == FindConversation(heap, conversations, id)
       IN  /\ o # 0
           /\ LET index == CHOOSE i \in DOMAIN conversations : conversations[i] = o
                  cs    == RemoveAt(conversations, index)
                  cur   == IF currentConversationId = id
                           THEN (IF Len(cs) > 0 THEN heap[cs[1]].id ELSE NoId)
                           ELSE currentConversationId
              IN  /\ conversations' = cs
                  /\ currentConversationId' = cur
                  /\ storage' = IF heap[o].isTemporary THEN storage
                                ELSE Saved(storage, heap, cs, selectedModelId, cur)
           /\ UNCHANGED <<heap, selectedModelId, chatMode, isLoading, error,
                          availableModels, activeRequests, requestQueue, calls,
                          now, nextId>>

(***************************************************************************)
(* loadFromLocalStorage.  JSON.parse builds new conversation objects from  *)
(* the stored list and they replace conversations.value whenever the key   *)
(* is present; the current id is not restored and stays as it is (the      *)
(* restore is commented out in the source).  Dates come back from their    *)
(* ISO strings with the millisecond they were written with.                *)
(***************************************************************************)
LoadFromLocalStorage ==
    /\ steps < MaxSteps
    /\ steps' = steps + 1
    /\ UNCHANGED <<paneVars, restVars>>
    /\ LET parsed == storage.conversations
           h2 == IF storage.hasConversations THEN heap \o parsed ELSE heap
           cs == IF storage.hasConversations
                 THEN [i \in 1..Len(parsed) |-> Len(heap) + i]
                 ELSE conversations
           currentConv == FindConversation(h2, cs, currentConversationId)
       IN  /\ heap' = h2
           /\ conversations' = cs
           /\ selectedModelId' = IF storage.selectedModel # Missing
                                 THEN storage.selectedModel
                                 ELSE selectedModelId
           /\ chatMode' = IF storage.chatMode # Missing
                          THEN (IF currentConv = 0 \/ ~h2[currentConv].chatModeLocked
                                THEN storage.chatMode
                                ELSE chatMode)
                          ELSE "normal"
    /\ UNCHANGED <<currentConversationId, isLoading, error, availableModels,
                   activeRequests, requestQueue, calls, storage, now, nextId>>

(***************************************************************************)
(* fetchAvailableModels / setSelectedModel / setChatMode                   *)
(***************************************************************************)
\* the model list served by GET /chat/models
ServedModels ==
    << [id |-> "gpt-5", provider |-> "openai"],
       [id |-> "sonar", provider |-> "perplexity"] >>

\* fetchAvailableModels, the request having succeeded
FetchAvailableModelsOk ==
    /\ steps < MaxSteps
    /\ steps' = steps + 1
    /\ UNCHANGED <<paneVars, restVars>>
    /\ availableModels = <<>>
    /\ availableModels' = ServedModels
    /\ UNCHANGED <<heap, conversations, currentConversationId, selectedModelId,
                   chatMode, isLoading, error, activeRequests, requestQueue,
                   calls, storage, now, nextId>>

\* fetchAvailableModels, the request having failed
FetchAvailableModelsFail ==
    /\ steps < MaxSteps
    /\ steps' = steps + 1
    /\ UNCHANGED <<paneVars, restVars>>
    /\ error # "Failed to load available models"
    /\ error' = "Failed to load available models"
    /\ UNCHANGED <<heap, conversations, currentConversationId, selectedModelId,
                   chatMode, isLoading, availableModels, activeRequests,
                   requestQueue, calls, storage, now, nextId>>

\* heap and localStorage after setSelectedModel(modelId), st being
\* localStorage before the call
ModelSelected(modelId, st) ==
    LET o == CurrentConversation
    IN  IF o # 0
        THEN LET h2 == [heap EXCEPT ![o].modelId = modelId,
                                    ![o].updatedAt = now]
             IN  [heap    |-> h2,
                  storage |-> IF h2[o].isTemporary THEN st
                              ELSE Saved(st, h2, conversations, modelId,
                                         currentConversationId)]
        ELSE [heap    |-> heap,
              storage |-> [st EXCEPT !.selectedModel = modelId]]

SetSelectedModel(modelId) ==
    /\ steps < MaxSteps
    /\ steps' = steps + 1
    /\ UNCHANGED <<paneVars, restVars>>
    /\ selectedModelId' = modelId
    /\ heap' = ModelSelected(modelId, storage).heap
    /\ storage' = ModelSelected(modelId, storage).storage
    /\ UNCHANGED <<conversations, currentConversationId, chatMode, isLoading,
                   error, availableModels, activeRequests, requestQueue, calls,
                   now, nextId>>

SetChatMode(mode) ==
    /\ steps < MaxSteps
    /\ steps' = steps + 1
    /\ UNCHANGED <<paneVars, restVars>>
    /\ LET o    == CurrentConversation
           st1  == IF mode # NoMode /\ (o = 0 \/ ~heap[o].chatModeLocked)
                   THEN [storage EXCEPT !.chatMode = mode]
                   ELSE storage
           perplexityModels ==
                   SelectSeq(availableModels, LAMBDA m : m.provider = "perplexity")
           sonarModel ==
                   IF \E i \in DOMAIN perplexityModels : perplexityModels[i].id = "sonar"
                   THEN "sonar"
                   ELSE perplexityModels[1].id
       IN  /\ chatMode' = mode
           /\ IF mode = "internet" /\ Len(perplexityModels) > 0
              THEN /\ selectedModelId' = sonarModel
                   /\ heap' = ModelSelected(sonarModel, st1).heap
                   /\ storage' = ModelSelected(sonarModel, st1).storage
              ELSE /\ storage' = st1
                   /\ UNCHANGED <<heap, selectedModelId>>
           /\ UNCHANGED <<conversations, currentConversationId, isLoading, error,
                          availableModels, activeRequests, requestQueue, calls,
                          now, nextId>>

(***************************************************************************)
(* The chat request: api.post('/chat/send', body, {signal, timeout}).      *)
(* It settles in one of five ways.  A request whose controller was aborted *)
(* is rejected with the abort error, every other request resolves with a   *)
(* response (success true or false) or is rejected by a network error or   *)
(* by the expiry of the 2-minute timeout.  An error is modelled by the     *)
(* fields the catch block of sendMessage reads: name, code and message.    *)
(***************************************************************************)
\* the rejection of a request whose signal was aborted: the distinguished
\* abort error
AbortRejection ==
    [name |-> "AbortError", code |-> "none", message |-> "canceled"]

\* the rejection of a request whose `timeout` option expired: the HTTP
\* client (axios) gives it the code ECONNABORTED
TimeoutRejection ==
    [name |-> "AxiosError", code |-> "ECONNABORTED",
     message |-> "timeout of 120000ms exceeded"]

NetworkRejection ==
    [name |-> "AxiosError", code |-> "ERR_NETWORK", message |-> "Network Error"]

\* throw new Error(response.data.error || 'Failed to send message')
RefusedError ==
    [name |-> "Error", code |-> "none", message |-> "Failed to send message"]

\* what the `await` of a suspended call can deliver
Settlements(call) ==
    IF call.aborted
    THEN {[how |-> "abort", e |-> AbortRejection]}
    ELSE {[how |-> "ok", e |-> RefusedError],
          [how |-> "refused", e |-> RefusedError],
          [how |-> "network", e |-> NetworkRejection],
          [how |-> "timeout", e |-> TimeoutRejection]}

(***************************************************************************)
(* sendMessage: the synchronous part, up to the await.                     *)
(***************************************************************************)
IsFirstMessageAlways(messages) == TRUE

\* if (conversation.messages.length === 1), evaluated after the push of the
\* user message
IsFirstMessage(messages) == Len(messages) = 1

UserMessage(content) ==
    [id |-> [t |-> now, kind |-> "user"], role |-> "user", content |-> content]

PlaceholderMessage ==
    [id |-> [t |-> now, kind |-> "assistant-placeholder"],
     role |-> "assistant", content |-> Placeholder]

\* the body of the request: the message, the model, the global chat mode and
\* conversation.messages.slice(0, -2).map(msg => ({role, content})), taken
\* after the pushes of the user message and of the placeholder
RequestBody(content, messages) ==
    [message              |-> content,
     model_id             |-> selectedModelId,
     conversation_history |->
         [i \in 1..(IF Len(messages) >= 2 THEN Len(messages) - 2 ELSE 0) |->
             [role |-> messages[i].role, content |-> messages[i].content]],
     chat_mode            |-> chatMode]

\* the request of a call that has settled
NoRequest == "none"

ExistingControllerOfAny(queue, id) == Range(queue)

\* requestQueue.value.get(conversation.id): the controllers to abort
ExistingController(queue, id) ==
    IF id \in DOMAIN queue THEN {queue[id]} ELSE {}

SendMessage(content) ==
    /\ steps < MaxSteps
    /\ steps' = steps + 1
    /\ UNCHANGED <<paneVars, restVars>>
    /\ LET creating == currentConversationId = NoId
           \* createNewConversation()
           h0   == IF creating THEN Append(heap, NewConversation(FALSE)) ELSE heap
           cs0  == IF creating THEN Append(conversations, Len(h0)) ELSE conversations
           cur0 == IF creating THEN nextId ELSE currentConversationId
           st0  == IF creating THEN Saved(storage, h0, cs0, selectedModelId, cur0)
                   ELSE storage
           o    == FindConversation(h0, cs0, cur0)
           requestId == Len(calls) + 1
       IN  IF o = 0
           THEN \* if (!conversation) return
                UNCHANGED <<heap, conversations, currentConversationId, storage,
                            requestQueue, activeRequests, calls, nextId,
                            isLoading, error>>
           ELSE
           /\ LET id   == h0[o].id
                  \* cancel any existing request of this conversation
                  aborted == ExistingController(requestQueue, id)
                  \* push of the user message
                  h1   == [h0 EXCEPT ![o].messages = Append(@, UserMessage(content)),
                                     ![o].updatedAt = now]
                  first == IsFirstMessage(h1[o].messages)
                  h2   == IF first
                          THEN [h1 EXCEPT ![o].chatMode = chatMode,
                                          ![o].chatModeLocked = TRUE,
                                          ![o].isTemporary = FALSE]
                          ELSE h1
                  st1  == IF first /\ h1[o].isTemporary
                          THEN Saved(st0, h2, cs0, selectedModelId, cur0)
                          ELSE st0
                  h3   == [h2 EXCEPT ![o].messages = Append(@, PlaceholderMessage)]
              IN  /\ heap' = h3
                  /\ conversations' = cs0
                  /\ currentConversationId' = cur0
                  /\ storage' = st1
                  /\ requestQueue' = MapSet(requestQueue, id, requestId)
                  /\ activeRequests' = activeRequests \cup {requestId}
                  /\ calls' = Append([r \in DOMAIN calls |->
                                        IF r \in aborted
                                        THEN [calls[r] EXCEPT !.aborted = TRUE]
                                        ELSE calls[r]],
                                     [conversation  |-> o,
                                      placeholderId |-> PlaceholderMessage.id,
                                      request       |-> RequestBody(content,
                                                                    h3[o].messages),
                                      aborted       |-> FALSE,
                                      settled       |-> FALSE])
           /\ nextId' = IF creating THEN nextId + 1 ELSE nextId
           /\ isLoading' = TRUE
           /\ error' = NoError
    /\ UNCHANGED <<selectedModelId, chatMode, availableModels, now>>

(***************************************************************************)
(* sendMessage: the continuation after the await (try, catch, finally).    *)
(***************************************************************************)
RemovePlaceholderNever(messages, placeholderId) == messages

\* findIndex(msg => msg.id === placeholderMessage.id) followed by splice
RemovePlaceholder(messages, placeholderId) ==
    IF \E i \in DOMAIN messages : messages[i].id = placeholderId
    THEN RemoveAt(messages,
                  CHOOSE i \in DOMAIN messages :
                      /\ messages[i].id = placeholderId
                      /\ \A j \in 1..(i - 1) : messages[j].id # placeholderId)
    ELSE messages

IsCancellationByCodeOnly(e) == e.code = "ECONNABORTED"

\* if (e.name === 'AbortError' || e.code === 'ECONNABORTED')
IsCancellation(e) == e.name = "AbortError" \/ e.code = "ECONNABORTED"

\* the reply built from response.data.response; the backend's answers carry
\* no sources in the runs of the store
AssistantMessage ==
    [id |-> [t |-> now, kind |-> "assistant"], role |-> "assistant",
     content |-> "answer", searchResults |-> <<>>, formattedCitations |-> <<>>]

\* the finally block, h being the heap the try or catch block left
Finally(r, h) ==
    LET o == calls[r].conversation
    IN  /\ heap' = h
        /\ activeRequests' = activeRequests \ {r}
        /\ requestQueue' = MapDelete(requestQueue, h[o].id)
        /\ isLoading' = FALSE
        /\ storage' = IF ~h[o].isTemporary
                      THEN Saved(storage, h, conversations, selectedModelId,
                                 currentConversationId)
                      ELSE storage

\* the catch block and the finally block after it
Catch(r, e) ==
    LET o == calls[r].conversation
        h == [heap EXCEPT ![o].messages =
                              RemovePlaceholder(@, calls[r].placeholderId)]
    IN  /\ Finally(r, h)
        /\ IF IsCancellation(e)
           THEN /\ error' = error
                /\ calls' = [calls EXCEPT ![r].settled = TRUE,
                                      ![r].request = NoRequest]
           ELSE /\ error' = e.message
                /\ calls' = [calls EXCEPT ![r].settled = TRUE,
                                      ![r].request = NoRequest]

\* the request of call r resolves with a response
SettleResolved(r, how) ==
    /\ steps' = steps
    /\ UNCHANGED <<paneVars, restVars>>
    /\ r \in DOMAIN calls
    /\ ~calls[r].settled
    /\ how \in {"ok", "refused"}
    /\ \E s \in Settlements(calls[r]) : s.how = how
    /\ LET o == calls[r].conversation
       IN  IF r \notin activeRequests
           THEN \* the request was cancelled: return
                /\ Finally(r, heap)
                /\ calls' = [calls EXCEPT ![r].settled = TRUE,
                                      ![r].request = NoRequest]
                /\ error' = error
           ELSE IF how = "ok"
           THEN /\ Finally(r, [heap EXCEPT
                      ![o].messages =
                          Append(RemovePlaceholder(@, calls[r].placeholderId),
                                 AssistantMessage),
                      ![o].updatedAt = now])
                /\ calls' = [calls EXCEPT ![r].settled = TRUE,
                                      ![r].request = NoRequest]
                /\ error' = error
           ELSE Catch(r, RefusedError)
    /\ UNCHANGED <<conversations, currentConversationId, selectedModelId,
                   chatMode, availableModels, now, nextId>>

\* the request of call r is rejected
SettleRejected(r, how) ==
    /\ steps' = steps
    /\ UNCHANGED <<paneVars, restVars>>
    /\ r \in DOMAIN calls
    /\ ~calls[r].settled
    /\ how \in {"abort", "network", "timeout"}
    /\ \E s \in Settlements(calls[r]) : s.how = how /\ Catch(r, s.e)
    /\ UNCHANGED <<conversations, currentConversationId, selectedModelId,
                   chatMode, availableModels, now, nextId>>

(***************************************************************************)
(* cancelActiveRequests / clearError                                       *)
(***************************************************************************)
CancelActiveRequests ==
    /\ steps < MaxSteps
    /\ steps' = steps + 1
    /\ UNCHANGED <<paneVars, restVars>>
    /\ calls' = [r \in DOMAIN calls |->
                    IF \E id \in DOMAIN requestQueue : requestQueue[id] = r
                    THEN [calls[r] EXCEPT !.aborted = TRUE]
                    ELSE calls[r]]
    /\ requestQueue' = EmptyMap
    /\ activeRequests' = {}
    /\ isLoading' = FALSE
    /\ UNCHANGED <<heap, conversations, currentConversationId, selectedModelId,
                   chatMode, error, availableModels, storage, now, nextId>>

ClearError ==
    /\ steps < MaxSteps
    /\ steps' = steps + 1
    /\ UNCHANGED <<paneVars, restVars>>
    /\ error # NoError
    /\ error' = NoError
    /\ UNCHANGED <<heap, conversations, currentConversationId, selectedModelId,
                   chatMode, isLoading, availableModels, activeRequests,
                   requestQueue, calls, storage, now, nextId>>

(***************************************************************************)
(* The clock.                                                              *)
(***************************************************************************)
Tick ==
    /\ steps < MaxSteps
    /\ steps' = steps + 1
    /\ UNCHANGED <<paneVars, restVars>>
    /\ now' = now + 1
    /\ UNCHANGED <<heap, conversations, currentConversationId, selectedModelId,
                   chatMode, isLoading, error, availableModels, activeRequests,
                   requestQueue, calls, storage, nextId>>

(***************************************************************************)
(* The store after construction, with an empty localStorage.               *)
(***************************************************************************)
InitChat ==
    /\ heap = <<>>
    /\ conversations = <<>>
    /\ currentConversationId = NoId
    /\ selectedModelId = "gpt-5"
    /\ chatMode = "normal"
    /\ isLoading = FALSE
    /\ error = NoError
    /\ availableModels = <<>>
    /\ activeRequests = {}
    /\ requestQueue = EmptyMap
    /\ calls = <<>>
    /\ storage = [hasConversations |-> FALSE, conversations |-> <<>>,
                  selectedModel |-> Missing, chatMode |-> Missing]
    /\ now = 0
    /\ nextId = 1
    /\ steps = 0
    /\ currentPdf = NoPdf
    /\ isViewerOpen = FALSE
    /\ highlightPage = 0
    /\ loads = <<>>
    /\ alert = NoAlert

Init ==
    /\ InitChat
    /\ selectedDomains = {}
    /\ newDomain = <<>>
    /\ input = <<>>
    /\ output = {}

Next ==
    \/ \E t \in BOOLEAN : CreateNewConversation(t)
    \/ \E id \in 1..(nextId - 1) : SelectConversation(id)
    \/ \E id \in 1..(nextId - 1) : DeleteConversation(id)
    \/ FetchAvailableModelsOk
    \/ FetchAvailableModelsFail
    \/ \E m \in Models : SetSelectedModel(m)
    \/ \E m \in Modes : SetChatMode(m)
    \/ \E c \in Texts : SendMessage(c)
    \/ \E r \in DOMAIN calls : \E how \in {"ok", "refused"} : SettleResolved(r, how)
    \/ \E r \in DOMAIN calls : \E how \in {"abort", "network", "timeout"} :
           SettleRejected(r, how)
    \/ CancelActiveRequests
    \/ ClearError
    \/ Tick

Spec == Init /\ [][Next]_vars

(***************************************************************************)
(* The store whose callers also call loadFromLocalStorage at any moment    *)
(* (the chat view calls it each time it is mounted).                       *)
(***************************************************************************)
NextReload ==
    \/ Next
    \/ LoadFromLocalStorage

SpecReload == Init /\ [][NextReload]_vars

(***************************************************************************)
(* The chat pane: opening a cited document in the PDF viewer               *)
(* (frontend/src/features/chat/components/ChatPane.vue, with               *)
(* pdfViewer/composables/usePdfViewer.ts and components/CitationsList.vue; *)
(* handleViewDocument of workspaces/views/WorkspaceDetailView.vue is the   *)
(* same code on a document of a workspace).                                *)
(*                                                                         *)
(* A string is a sequence of one-character strings, a byte array a         *)
(* sequence of numbers in 0..255.                                          *)
(***************************************************************************)
ChunkThreshold == 1000000    \* base64 longer than this is decoded in chunks
ChunkSize      == 100000     \* characters of a chunk
OneMB          == 1048576    \* 1024 * 1024

Whitespace == {" "}

Base64Alphabet ==
    <<
      "A", "B", "C", "D", "E", "F", "G", "H", "I", "J", "K", "L", "M", "N", "O", "P",
      "Q", "R", "S", "T", "U", "V", "W", "X", "Y", "Z", "a", "b", "c", "d", "e", "f",
      "g", "h", "i", "j", "k", "l", "m", "n", "o", "p", "q", "r", "s", "t", "u", "v",
      "w", "x", "y", "z", "0", "1", "2", "3", "4", "5", "6", "7", "8", "9", "+", "/"
    >>

IsBase64Char(c) == \E i \in DOMAIN Base64Alphabet : Base64Alphabet[i] = c

\* the six bits a character of the alphabet stands for
Base64Value(c) == (CHOOSE i \in DOMAIN Base64Alphabet : Base64Alphabet[i] = c) - 1

\* number of '=' a string ends with, counted up to two
TrailingPads(str) ==
    IF Len(str) >= 1 /\ str[Len(str)] = "="
    THEN (IF Len(str) >= 2 /\ str[Len(str) - 1] = "=" THEN 2 ELSE 1)
    ELSE 0

\* /^[A-Za-z0-9+/]*={0,2}$/.test(str) && str.length % 4 === 0
IsValidBase64(str) ==
    /\ \A i \in 1..(Len(str) - TrailingPads(str)) : IsBase64Char(str[i])
    /\ Len(str) % 4 = 0

\* base64.replace(/\s/g, '')
StripWhitespace(str) == SelectSeq(str, LAMBDA c : c \notin Whitespace)

\* str.padEnd(Math.ceil(str.length / 4) * 4, '=')
PadEnd(str) ==
    str \o [i \in 1..((4 - (Len(str) % 4)) % 4) |-> "="]

\* the bytes that a string of alphabet characters, whose length is not 1
\* modulo 4, stands for: three bytes for four characters, two for a
\* trailing three, one for a trailing two
RECURSIVE DecodeSextets(_)
DecodeSextets(str) ==
    IF Len(str) >= 4
    THEN LET n == Base64Value(str[1]) * 262144 + Base64Value(str[2]) * 4096
                  + Base64Value(str[3]) * 64 + Base64Value(str[4])
         IN  <<n \div 65536, (n \div 256) % 256, n % 256>>
                 \o DecodeSextets(SubSeq(str, 5, Len(str)))
    ELSE IF Len(str) = 3
    THEN LET n == Base64Value(str[1]) * 4096 + Base64Value(str[2]) * 64
                  + Base64Value(str[3])
         IN  <<n \div 1024, (n \div 4) % 256>>
    ELSE IF Len(str) = 2
    THEN <<(Base64Value(str[1]) * 64 + Base64Value(str[2])) \div 16>>
    ELSE <<>>

\* window.atob (the forgiving-base64 decode of the HTML standard): white
\* space is dropped, one or two '=' are dropped from the end of a string
\* whose length is a multiple of 4, and the rest is decoded unless its
\* length is 1 modulo 4 or it holds a character outside the alphabet, in
\* which case atob throws.  The result: [ok, bytes].
Atob(str) ==
    LET data == StripWhitespace(str)
        body == IF Len(data) % 4 = 0
                THEN SubSeq(data, 1, Len(data) - TrailingPads(data))
                ELSE data
    IN  IF Len(body) % 4 = 1 \/ \E i \in DOMAIN body : ~IsBase64Char(body[i])
        THEN [ok |-> FALSE, bytes |-> <<>>]
        ELSE [ok |-> TRUE, bytes |-> DecodeSextets(body)]

\* base64ToUint8ArrayChunked: the chunks are decoded one after the other
\* into an array of Math.floor(base64.length / 4) * 3 bytes, which keeps
\* its zeros where the chunks wrote nothing; atob throwing on a chunk makes
\* the whole conversion throw
RECURSIVE ChunkBytes(_)
ChunkBytes(base64) ==
    IF Len(base64) = 0 THEN [ok |-> TRUE, bytes |-> <<>>]
    ELSE LET size  == IF Len(base64) < ChunkSize THEN Len(base64) ELSE ChunkSize
             chunk == Atob(PadEnd(SubSeq(base64, 1, size)))
             rest  == ChunkBytes(SubSeq(base64, size + 1, Len(base64)))
         IN  IF chunk.ok /\ rest.ok
             THEN [ok |-> TRUE, bytes |-> chunk.bytes \o rest.bytes]
             ELSE [ok |-> FALSE, bytes |-> <<>>]

Base64ToUint8ArrayChunked(base64) ==
    LET totalLength == (Len(base64) \div 4) * 3
        written     == ChunkBytes(base64)
    IN  IF written.ok
        THEN [ok |-> TRUE,
              bytes |-> [i \in 1..totalLength |->
                            IF i <= Len(written.bytes)
                            THEN written.bytes[i] ELSE 0]]
        ELSE written

\* new TextEncoder().encode(binaryString): the UTF-8 bytes of the code
\* points 0..255
RECURSIVE Utf8Encode(_)
Utf8Encode(bytes) ==
    IF bytes = <<>> THEN <<>>
    ELSE (IF bytes[1] < 128 THEN <<bytes[1]>>
          ELSE <<192 + (bytes[1] \div 64), 128 + (bytes[1] % 64)>>)
         \o Utf8Encode(Tail(bytes))

\* base64ToUint8Array: atob (in chunks for a long string); if that throws,
\* atob again followed by TextEncoder; if that throws too, the conversion
\* throws
Base64ToUint8Array(base64) ==
    LET paddedBase64 == PadEnd(StripWhitespace(base64))
        first  == IF Len(paddedBase64) > ChunkThreshold
                  THEN Base64ToUint8ArrayChunked(paddedBase64)
                  ELSE Atob(paddedBase64)
        second == Atob(paddedBase64)
    IN  IF first.ok THEN first
        ELSE IF second.ok THEN [ok |-> TRUE, bytes |-> Utf8Encode(second.bytes)]
        ELSE [ok |-> FALSE, bytes |-> <<>>]

IsPdfHeaderByFirstByte(bytes) == Len(bytes) >= 1 /\ bytes[1] = 37

\* isPdfHeader: the bytes start with %PDF
IsPdfHeader(bytes) ==
    /\ Len(bytes) >= 4
    /\ bytes[1] = 37         \* 0x25 %
    /\ bytes[2] = 80         \* 0x50 P
    /\ bytes[3] = 68         \* 0x44 D
    /\ bytes[4] = 70         \* 0x46 F

(***************************************************************************)
(* Search results and their grouping by document.  A search result is      *)
(* [paragraph_id, page, document |-> [id]]; NoPage stands for a result     *)
(* without page.  A citation is [index].                                   *)
(***************************************************************************)
NoPage == 0 - 1000           \* result.page === undefined

\* a value that JavaScript takes for true in `page && ...` and `page || 1`
HasPage(page) == page # NoPage /\ page # 0

\* msg.searchResults && msg.searchResults.length > 0
HasSearchResults(msg) ==
    /\ "searchResults" \in DOMAIN msg
    /\ Len(msg.searchResults) > 0

\* msg.role === 'assistant' && msg.formattedCitations && msg.searchResults &&
\* msg.formattedCitations.length > 0 && msg.searchResults.length > 0
HasCitationsAndResults(msg) ==
    /\ msg.role = "assistant"
    /\ "formattedCitations" \in DOMAIN msg
    /\ HasSearchResults(msg)
    /\ Len(msg.formattedCitations) > 0

\* messages.find(...) over the positions that pass its test: the first of
\* them, 0 when there is none
FindMessage(passing) ==
    IF passing = {} THEN 0
    ELSE CHOOSE i \in passing : \A j \in passing : i <= j

RECURSIVE DocumentMapOfRuns(_)
DocumentMapOfRuns(results) ==
    IF results = <<>> THEN <<>>
    ELSE LET map  == DocumentMapOfRuns(SubSeq(results, 1, Len(results) - 1))
             last == results[Len(results)]
         IN  IF map # <<>> /\ map[Len(map)][1].document.id = last.document.id
             THEN [map EXCEPT ![Len(map)] = Append(@, last)]
             ELSE Append(map, <<last>>)

\* the documentMap built by the forEach over the results: a Map from
\* document id to the results of the document, which keeps its keys in the
\* order of their insertion; here the sequence of its values
RECURSIVE DocumentMap(_)
DocumentMap(results) ==
    IF results = <<>> THEN <<>>
    ELSE LET map  == DocumentMap(SubSeq(results, 1, Len(results) - 1))
             last == results[Len(results)]
         IN  IF \E g \in DOMAIN map : map[g][1].document.id = last.document.id
             THEN LET g == CHOOSE g \in DOMAIN map :
                               map[g][1].document.id = last.document.id
                  IN  [map EXCEPT ![g] = Append(@, last)]
             ELSE Append(map, <<last>>)

\* [...new Set(pages)].sort((a, b) => a - b)
RECURSIVE SortedSet(_)
SortedSet(S) ==
    IF S = {} THEN <<>>
    ELSE LET least == CHOOSE x \in S : \A y \in S : x <= y
         IN  <<least>> \o SortedSet(S \ {least})

\* the computed groupedResults of the search results component
GroupedResults(searchResults) ==
    LET map == DocumentMap(searchResults)
    IN  [g \in DOMAIN map |->
            [document |-> map[g][1].document,
             results  |-> map[g],
             pages    |-> SortedSet({map[g][i].page : i \in DOMAIN map[g]}
                                        \ {NoPage}),
             docIndex |-> g]]

(***************************************************************************)
(* The clicks.  Each handler sets the highlight and calls                  *)
(* loadDocumentForSource, which suspends at its first fetch.  No handler   *)
(* runs while an alert() dialog is on screen.                              *)
(***************************************************************************)
\* the messages the pane shows
PaneMessages ==
    IF CurrentConversation = 0 THEN <<>>
    ELSE heap[CurrentConversation].messages

\* loadDocumentForSource(sourceData), up to the fetch of .../view
LoadDocumentForSource(sourceData) ==
    loads' = Append(loads, [source |-> sourceData, pc |-> "view"])

\* handleSearchResultPdfOpen(result, index)
OpenSearchResult(result) ==
    /\ highlightPage' = IF HasPage(result.page) /\ result.page > 0
                        THEN result.page ELSE 1
    /\ LoadDocumentForSource(result)
    /\ UNCHANGED <<currentPdf, isViewerOpen, alert>>

\* a click on result k of the search results shown under message mi
HandleSearchResultPdfOpen(mi, k) ==
    /\ alert = NoAlert
    /\ Len(loads) < MaxLoads
    /\ mi \in DOMAIN PaneMessages
    /\ "searchResults" \in DOMAIN PaneMessages[mi]
    /\ k \in DOMAIN PaneMessages[mi].searchResults
    /\ OpenSearchResult(PaneMessages[mi].searchResults[k])
    /\ UNCHANGED <<storeVars, restVars>>

\* a click on the source number of document group g under message mi:
\* handleSourceClick(docGroup) opens the first result of the group
HandleSourceClick(mi, g) ==
    /\ alert = NoAlert
    /\ Len(loads) < MaxLoads
    /\ mi \in DOMAIN PaneMessages
    /\ "searchResults" \in DOMAIN PaneMessages[mi]
    /\ g \in DOMAIN GroupedResults(PaneMessages[mi].searchResults)
    /\ OpenSearchResult(GroupedResults(PaneMessages[mi].searchResults)[g].results[1])
    /\ UNCHANGED <<storeVars, restVars>>

\* a click on citation ci of the citation list shown under message mi:
\* handleCitationPdfOpen(citation)
HandleCitationPdfOpen(mi, ci) ==
    /\ alert = NoAlert
    /\ Len(loads) < MaxLoads
    /\ mi \in DOMAIN PaneMessages
    /\ "formattedCitations" \in DOMAIN PaneMessages[mi]
    /\ ci \in DOMAIN PaneMessages[mi].formattedCitations
    /\ LET citation       == PaneMessages[mi].formattedCitations[ci]
           currentMessage == FindMessage({i \in DOMAIN PaneMessages :
                                             HasCitationsAndResults(PaneMessages[i])})
       IN  IF /\ currentMessage # 0
              /\ citation.index \in DOMAIN PaneMessages[currentMessage].searchResults
           THEN OpenSearchResult(
                    PaneMessages[currentMessage].searchResults[citation.index])
           ELSE UNCHANGED paneVars
    /\ UNCHANGED <<storeVars, restVars>>

\* a click on a source marker [docIndex, P. pages] in the text of message
\* mi: handleDocumentLinkClick(docIndex)
HandleDocumentLinkClick(mi, docIndex) ==
    /\ alert = NoAlert
    /\ Len(loads) < MaxLoads
    /\ mi \in DOMAIN PaneMessages
    /\ "searchResults" \in DOMAIN PaneMessages[mi]
    /\ docIndex \in DOMAIN GroupedResults(PaneMessages[mi].searchResults)
    /\ LET currentMessage == FindMessage({i \in DOMAIN PaneMessages :
                                             HasSearchResults(PaneMessages[i])})
           documentGroups == IF currentMessage = 0 THEN <<>>
                             ELSE DocumentMap(PaneMessages[currentMessage].searchResults)
       IN  IF docIndex \in DOMAIN documentGroups
           THEN LET sourceData == documentGroups[docIndex][1]
                IN  /\ highlightPage' = IF HasPage(sourceData.page)
                                        THEN sourceData.page ELSE 1
                    /\ LoadDocumentForSource(sourceData)
                    /\ UNCHANGED <<currentPdf, isViewerOpen, alert>>
           ELSE UNCHANGED paneVars
    /\ UNCHANGED <<storeVars, restVars>>

(***************************************************************************)
(* The two fetches of loadDocumentForSource and what the server answers.   *)
(* A response is [status, json, data]: the fetch was rejected, or answered *)
(* with an HTTP error, or answered; json tells whether the content type    *)
(* is application/json.  The awaits between a fetch and the reading of its *)
(* body touch no state of the pane and are one step with it.               *)
(***************************************************************************)
NoText == <<>>

\* base64 strings the server may send: %PDF-1, %PDF, %PDA, %PD, <html>, a
\* string with a character outside the alphabet, a string of 5 characters,
\* nothing
Base64Samples ==
    { <<"J", "V", "B", "E", "R", "i", "0", "x">>,
      <<"J", "V", "B", "E", "R", "g", "=", "=">>,
      <<"J", "V", "B", "E", "Q", "Q", "=", "=">>,
      <<"J", "V", "B", "E">>,
      <<"P", "G", "h", "0", "b", "W", "w", "+">>,
      <<"J", "V", "B", "E", " ", "R", "g", "=">>,
      <<"J", "V", "B", "E", "R">>,
      NoText }

\* files the download may deliver: %PDF-1., %PDF-, %PDF, %PDA, %PD, <html,
\* nothing
ByteSamples ==
    { <<37, 80, 68, 70, 45, 49, 46>>, <<37, 80, 68, 70, 45>>,
      <<37, 80, 68, 70>>, <<37, 80, 68, 65>>, <<37, 80, 68>>,
      <<60, 104, 116, 109, 108>>, <<>> }

TooLargeTexts == {"File too large for base64 encoding"}

ErrorTexts == {"", "Document not found"} \cup TooLargeTexts

FileSizes == {0, OneMB, OneMB + 1}

ViewData ==
    [use_download : BOOLEAN, error : ErrorTexts, base64 : Base64Samples,
     file_size : FileSizes]

NoData == [use_download |-> FALSE, error |-> "", base64 |-> NoText,
           file_size |-> 0]

\* answers to GET /api/v1/documents/{id}/view
ViewResponses ==
    {[status |-> "rejected", json |-> FALSE, data |-> NoData],
     [status |-> "error", json |-> TRUE, data |-> NoData],
     [status |-> "ok", json |-> FALSE, data |-> NoData]}
    \cup {[status |-> "ok", json |-> TRUE, data |-> d] : d \in ViewData}

\* answers to GET /api/v1/documents/{id}/download
DownloadResponses ==
    {[status |-> "rejected", bytes |-> <<>>],
     [status |-> "error", bytes |-> <<>>]}
    \cup {[status |-> "ok", bytes |-> b] : b \in ByteSamples}

Threw(message) == [threw |-> TRUE, message |-> message, bytes |-> <<>>]

Returned(bytes) == [threw |-> FALSE, message |-> "", bytes |-> bytes]

\* data.use_download || (data.error && data.error.includes('too large'))
ServerRejectedBase64(data) ==
    data.use_download \/ data.error \in TooLargeTexts

FileTooLargeNever(data) == FALSE

\* (data.file_size || 0) / (1024 * 1024) > 1
FileTooLarge(data) == data.file_size > OneMB

\* loadDocumentViaBase64 from the answer of its fetch on: what it throws,
\* or the bytes it hands to openPdf
LoadDocumentViaBase64(response) ==
    IF response.status = "rejected" THEN Threw("Failed to fetch")
    ELSE IF response.status = "error" THEN Threw("Failed to fetch document")
    ELSE IF ~response.json THEN Threw("Server returned invalid response format")
    ELSE LET data == response.data
         IN  IF ServerRejectedBase64(data)
             THEN Threw("Server: File too large for base64")
             ELSE IF data.base64 = NoText
             THEN Threw("Invalid response: missing base64 data")
             ELSE IF FileTooLarge(data)
             THEN Threw("File too large for base64 processing")
             ELSE IF ~IsValidBase64(data.base64)
             THEN Threw("Invalid base64 format received from server")
             ELSE LET converted == Base64ToUint8Array(data.base64)
                  IN  IF ~converted.ok
                      THEN Threw("Failed to convert base64 to binary data")
                      ELSE IF Len(converted.bytes) < 4
                              \/ ~IsPdfHeader(converted.bytes)
                      THEN Threw("Received data is not a valid PDF file")
                      ELSE Returned(converted.bytes)

\* loadDocumentViaDownload from the answer of its fetch on
LoadDocumentViaDownload(response) ==
    IF response.status = "rejected" THEN Threw("Failed to fetch")
    ELSE IF response.status = "error" THEN Threw("Failed to download document")
    ELSE IF Len(response.bytes) < 4 \/ ~IsPdfHeader(response.bytes)
    THEN Threw("Downloaded file is not a valid PDF")
    ELSE Returned(response.bytes)

\* the pdfDocument object built for the viewer
PdfDocument(sourceData, bytes) ==
    [id |-> sourceData.document.id, base64Data |-> bytes]

\* openPdf(document), which ends the call l of loadDocumentForSource
OpenPdf(l, document) ==
    /\ currentPdf' = document
    /\ isViewerOpen' = TRUE
    /\ loads' = RemoveAt(loads, l)

\* the inner try of call l of loadDocumentForSource ends with this outcome
\* of loadDocumentViaBase64: if it threw, the catch calls
\* loadDocumentViaDownload, which suspends at its fetch
AfterBase64(l, outcome) ==
    /\ alert = NoAlert
    /\ l \in DOMAIN loads
    /\ loads[l].pc = "view"
    /\ IF outcome.threw
       THEN /\ loads' = [loads EXCEPT ![l].pc = "download"]
            /\ UNCHANGED <<currentPdf, isViewerOpen>>
       ELSE OpenPdf(l, PdfDocument(loads[l].source, outcome.bytes))
    /\ UNCHANGED <<highlightPage, alert, storeVars, restVars>>

\* the fetch of .../view of call l is answered: loadDocumentViaBase64 runs
\* to its end
ViewResponds(l, response) ==
    /\ response \in ViewResponses
    /\ AfterBase64(l, LoadDocumentViaBase64(response))

\* the fallback of call l of loadDocumentForSource ends with this outcome of
\* loadDocumentViaDownload: if it threw, the outer catch shows
\* alert(`Failed to open document: ${message}`); alert holds the message
AfterDownload(l, outcome) ==
    /\ alert = NoAlert
    /\ l \in DOMAIN loads
    /\ loads[l].pc = "download"
    /\ IF outcome.threw
       THEN /\ alert' = outcome.message
            /\ loads' = RemoveAt(loads, l)
            /\ UNCHANGED <<currentPdf, isViewerOpen>>
       ELSE /\ OpenPdf(l, PdfDocument(loads[l].source, outcome.bytes))
            /\ UNCHANGED alert
    /\ UNCHANGED <<highlightPage, storeVars, restVars>>

\* the fetch of .../download of call l is answered: loadDocumentViaDownload
\* runs to its end
DownloadResponds(l, response) ==
    /\ response \in DownloadResponses
    /\ AfterDownload(l, LoadDocumentViaDownload(response))

\* the user closes the alert() dialog
DismissAlert ==
    /\ alert # NoAlert
    /\ alert' = NoAlert
    /\ UNCHANGED <<currentPdf, isViewerOpen, highlightPage, loads, storeVars, restVars>>

\* handleClosePdfViewer, on the close button of the open viewer
HandleClosePdfViewer ==
    /\ alert = NoAlert
    /\ isViewerOpen
    /\ currentPdf' = NoPdf
    /\ isViewerOpen' = FALSE
    /\ highlightPage' = 0
    /\ UNCHANGED <<loads, alert, storeVars, restVars>>

(***************************************************************************)
(* The pane on a conversation of two answered questions, whose answers     *)
(* carry the search results first and second; every result is cited, and   *)
(* an answer with results has one citation more, of no result.             *)
(***************************************************************************)
Docs  == {"A", "B", "C"}           \* document ids
Pages == <<5, NoPage, 2, 0 - 1>>   \* pages of the results, cyclically

PageOf(i) == Pages[((i - 1) % Len(Pages)) + 1]

\* the results number from..to of a list of document ids
ResultsOf(pool, from, to) ==
    [i \in 1..(to - from + 1) |->
        [paragraph_id |-> from + i - 1,
         page         |-> PageOf(from + i - 1),
         document     |-> [id |-> pool[from + i - 1]]]]

CitationsOf(searchResults) ==
    IF searchResults = <<>> THEN <<>>
    ELSE [i \in 1..(Len(searchResults) + 1) |-> [index |-> i]]

Answer(t, searchResults) ==
    [id |-> [t |-> t, kind |-> "assistant"], role |-> "assistant",
     content |-> "answer", searchResults |-> searchResults,
     formattedCitations |-> CitationsOf(searchResults)]

Question(t) ==
    [id |-> [t |-> t, kind |-> "user"], role |-> "user", content |-> "hi"]

InitPane(first, second) ==
    LET conversation ==
            [id             |-> 1,
             messages       |-> <<Question(0), Answer(0, first),
                                  Question(0), Answer(0, second)>>,
             modelId        |-> "gpt-5",
             chatMode       |-> "normal",
             chatModeLocked |-> TRUE,
             isTemporary    |-> FALSE,
             updatedAt      |-> 0]
    IN  /\ heap = <<conversation>>
        /\ conversations = <<1>>
        /\ currentConversationId = 1
        /\ selectedModelId = "gpt-5"
        /\ chatMode = "normal"
        /\ isLoading = FALSE
        /\ error = NoError
        /\ availableModels = <<>>
        /\ activeRequests = {}
        /\ requestQueue = EmptyMap
        /\ calls = <<>>
        /\ storage = [hasConversations |-> TRUE,
                      conversations |-> <<conversation>>,
                      selectedModel |-> "gpt-5", chatMode |-> Missing]
        /\ now = 0
        /\ nextId = 2
        /\ steps = 0
        /\ currentPdf = NoPdf
        /\ isViewerOpen = FALSE
        /\ highlightPage = 0
        /\ loads = <<>>
        /\ alert = NoAlert
        /\ selectedDomains = {}
        /\ newDomain = <<>>
        /\ input = <<>>
        /\ output = {}

(***************************************************************************)
(* SpecPdf: opening documents.  The first answer cites a result of         *)
(* document A and one of document B; the clicks start up to MaxLoads       *)
(* concurrent loads and the server answers each fetch in every way.        *)
(***************************************************************************)
InitPdf ==
    InitPane(ResultsOf(<<"A", "B">>, 1, 2), <<>>)

Clicks ==
    \/ \E mi \in 1..4 : \E k \in 1..MaxResults : HandleSearchResultPdfOpen(mi, k)
    \/ \E mi \in 1..4 : \E g \in 1..MaxResults : HandleSourceClick(mi, g)
    \/ \E mi \in 1..4 : \E ci \in 1..(MaxResults + 1) : HandleCitationPdfOpen(mi, ci)
    \/ \E mi \in 1..4 : \E d \in 1..MaxResults : HandleDocumentLinkClick(mi, d)

NextPdf ==
    \/ Clicks
    \/ \E l \in DOMAIN loads : \E response \in ViewResponses :
           ViewResponds(l, response)
    \/ \E l \in DOMAIN loads : \E response \in DownloadResponses :
           DownloadResponds(l, response)
    \/ DismissAlert
    \/ HandleClosePdfViewer

SpecPdf == InitPdf /\ [][NextPdf]_vars

(***************************************************************************)
(* SpecCite: which source a click opens.  The two answers carry every      *)
(* split of every list of up to MaxResults results; the loads the clicks   *)
(* start stay suspended at their fetch, and a run is at most MaxClicks     *)
(* clicks.                                                                 *)
(***************************************************************************)
Pools == UNION {[1..n -> Docs] : n \in 0..MaxResults}

InitCite ==
    \E pool \in Pools : \E k \in 0..Len(pool) :
        InitPane(ResultsOf(pool, 1, k), ResultsOf(pool, k + 1, Len(pool)))

NextCite == Len(loads) < MaxClicks /\ Clicks

SpecCite == InitCite /\ [][NextCite]_vars

(***************************************************************************)
(* SpecDecode: the two base64 decoders of the pane on the same input.      *)
(* The input is any string of up to MaxQuads groups of four characters     *)
(* that isValidBase64 accepts; the calls are made in either order.         *)
(***************************************************************************)
MaxQuads == 1                 \* groups of four characters of an input

\* the characters of the inputs: sextets 0, 9 and 63, and the padding
DecodeChars == {"A", "J", "/", "="}

DecodeInputs ==
    {str \in UNION {[1..(4 * q) -> DecodeChars] : q \in 0..MaxQuads} :
        IsValidBase64(str)}

InitDecode ==
    /\ InitChat
    /\ selectedDomains = {}
    /\ newDomain = <<>>
    /\ input \in DecodeInputs
    /\ output = {}

\* base64ToUint8ArrayChunked(input) is called and returns
DecodeChunked ==
    /\ \A r \in output : r.by # "chunked"
    /\ output' = output \cup
           {[by |-> "chunked", result |-> Base64ToUint8ArrayChunked(input)]}
    /\ UNCHANGED <<input, selectorVars, storeVars, paneVars>>

\* base64ToUint8Array(input) is called and returns; an input of at most
\* ChunkThreshold characters takes the single pass
DecodeSinglePass ==
    /\ \A r \in output : r.by # "single pass"
    /\ Len(input) <= ChunkThreshold
    /\ output' = output \cup
           {[by |-> "single pass", result |-> Base64ToUint8Array(input)]}
    /\ UNCHANGED <<input, selectorVars, storeVars, paneVars>>

NextDecode ==
    \/ DecodeChunked
    \/ DecodeSinglePass

SpecDecode == InitDecode /\ [][NextDecode]_vars

(***************************************************************************)
(* The domain selector of the chat                                         *)
(* (frontend/src/features/chat/components/DomainSelector.vue).  A domain   *)
(* of the selection is a string; the text of the input box is a sequence   *)
(* of one-character strings.                                               *)
(***************************************************************************)
\* domainGroups, here with three of its groups and the first domains of
\* each, in their order; the groups share domains as they do in the source
domainGroups ==
    [core_academic |-> [domains |-> <<"arxiv.org", "semanticscholar.org">>],
     preprints     |-> [domains |-> <<"arxiv.org", "biorxiv.org", "medrxiv.org">>],
     psychology    |-> [domains |-> <<"psycnet.apa.org", "biorxiv.org",
                                      "medrxiv.org">>]]

DomainGroupKey == DOMAIN domainGroups

UpperCase == SubSeq(Base64Alphabet, 1, 26)
LowerCase == SubSeq(Base64Alphabet, 27, 52)
Digits    == SubSeq(Base64Alphabet, 53, 62)

IsLetter(c) == c \in Range(UpperCase) \cup Range(LowerCase)

IsLetterOrDigit(c) == IsLetter(c) \/ c \in Range(Digits)

\* str.trim()
RECURSIVE Trim(_)
Trim(str) ==
    IF str = <<>> THEN <<>>
    ELSE IF str[1] \in Whitespace THEN Trim(Tail(str))
    ELSE IF str[Len(str)] \in Whitespace
    THEN Trim(SubSeq(str, 1, Len(str) - 1))
    ELSE str

\* str.toLowerCase()
ToLowerCase(str) ==
    [i \in DOMAIN str |->
        IF str[i] \in Range(UpperCase)
        THEN LowerCase[CHOOSE k \in DOMAIN UpperCase : UpperCase[k] = str[i]]
        ELSE str[i]]

\* the string of a sequence of characters
RECURSIVE StringOf(_)
StringOf(str) ==
    IF str = <<>> THEN "" ELSE str[1] \o StringOf(Tail(str))

\* isValidDomain:
\* /^[a-zA-Z0-9][a-zA-Z0-9-]*[a-zA-Z0-9]*(\.[a-zA-Z]{2,})+$/.test(domain);
\* the text before the first dot starts with a letter or digit and goes on
\* with letters, digits and hyphens; from the first dot on, the text is
\* dots and letters, with two letters at least after each dot
IsValidDomain(domain) ==
    /\ \E i \in DOMAIN domain : domain[i] = "."
    /\ LET firstDot == CHOOSE i \in DOMAIN domain :
                           /\ domain[i] = "."
                           /\ \A j \in 1..(i - 1) : domain[j] # "."
       IN  /\ firstDot > 1
           /\ IsLetterOrDigit(domain[1])
           /\ \A i \in 2..(firstDot - 1) :
                  IsLetterOrDigit(domain[i]) \/ domain[i] = "-"
           /\ \A i \in firstDot..Len(domain) :
                  IF domain[i] = "."
                  THEN /\ i + 2 <= Len(domain)
                       /\ IsLetter(domain[i + 1])
                       /\ IsLetter(domain[i + 2])
                  ELSE IsLetter(domain[i])

\* what is typed into the input box: nothing, blanks, a domain in capitals
\* with blanks around it, a domain of a group, and two texts that are not
\* domains
DomainTexts ==
    {<<>>,
     <<" ">>,
     <<" ", "D", "o", "i", ".", "O", "R", "G", " ">>,
     <<"a", "r", "x", "i", "v", ".", "o", "r", "g">>,
     <<"d", "o", "i">>,
     <<"-", "a", ".", "i", "o">>,
     <<"a", ".", "b", "-", "c">>,
     <<"a", ".", "b">>}

\* v-model="newDomain": the user edits the input box
SetNewDomain(text) ==
    /\ alert = NoAlert
    /\ text \in DomainTexts
    /\ newDomain' = text
    /\ UNCHANGED <<selectedDomains, alert, currentPdf, isViewerOpen,
                   highlightPage, loads, callVars, storeVars>>

\* addCustomDomain, on Enter in the input box or on the Add button
AddCustomDomain ==
    /\ alert = NoAlert
    /\ LET domain == ToLowerCase(Trim(newDomain))
       IN  IF domain = <<>>
           THEN UNCHANGED <<selectedDomains, newDomain, alert>>
           ELSE IF ~IsValidDomain(domain)
           THEN /\ alert' = "Please enter a valid domain (e.g., example.com)"
                /\ UNCHANGED <<selectedDomains, newDomain>>
           ELSE /\ selectedDomains' = selectedDomains \cup {StringOf(domain)}
                /\ newDomain' = <<>>
                /\ UNCHANGED alert
    /\ UNCHANGED <<currentPdf, isViewerOpen, highlightPage, loads, callVars,
                   storeVars>>

\* the domains of the groups
GroupDomains ==
    UNION {Range(domainGroups[groupKey].domains) : groupKey \in DomainGroupKey}

\* the domains that have a button: those of the groups and the selected
DomainButtons == GroupDomains \cup selectedDomains

\* the domains of the groups and of the texts typed
Domains ==
    GroupDomains \cup {StringOf(ToLowerCase(Trim(text))) : text \in DomainTexts}

\* toggleDomain(domain)
ToggleDomain(domain) ==
    /\ alert = NoAlert
    /\ domain \in DomainButtons
    /\ selectedDomains' = IF domain \in selectedDomains
                          THEN selectedDomains \ {domain}
                          ELSE selectedDomains \cup {domain}
    /\ UNCHANGED <<newDomain, paneVars, callVars, storeVars>>

SelectedInGroupOfAll(groupKey) == selectedDomains

\* selectedInGroup of toggleGroup: the selected domains that the Set of
\* the group's domains has
SelectedInGroup(groupKey) ==
    LET groupDomains == Range(domainGroups[groupKey].domains)
    IN  {domain \in selectedDomains : domain \in groupDomains}

\* toggleGroup(groupKey)
ToggleGroup(groupKey) ==
    /\ alert = NoAlert
    /\ groupKey \in DomainGroupKey
    /\ LET group == domainGroups[groupKey]
       IN  selectedDomains' =
               IF Cardinality(SelectedInGroup(groupKey)) = Len(group.domains)
               THEN selectedDomains \ Range(group.domains)
               ELSE selectedDomains \cup Range(group.domains)
    /\ UNCHANGED <<newDomain, paneVars, callVars, storeVars>>

\* isGroupFullySelected(groupKey): group.domains.every(...)
IsGroupFullySelected(groupKey) ==
    /\ groupKey \in DomainGroupKey
    /\ \A i \in DOMAIN domainGroups[groupKey].domains :
           domainGroups[groupKey].domains[i] \in selectedDomains

\* getSelectedCountInGroup(groupKey): group.domains.filter(...).length
GetSelectedCountInGroup(groupKey) ==
    IF groupKey \notin DomainGroupKey THEN 0
    ELSE Len(SelectSeq(domainGroups[groupKey].domains,
                       LAMBDA domain : domain \in selectedDomains))

\* clearSelection
ClearSelection ==
    /\ alert = NoAlert
    /\ selectedDomains' = {}
    /\ UNCHANGED <<newDomain, paneVars, callVars, storeVars>>

NextDomains ==
    \/ \E text \in DomainTexts : SetNewDomain(text)
    \/ AddCustomDomain
    \/ \E domain \in Domains : ToggleDomain(domain)
    \/ \E groupKey \in DomainGroupKey : ToggleGroup(groupKey)
    \/ ClearSelection
    \/ DismissAlert

SpecDomains == Init /\ [][NextDomains]_vars

(***************************************************************************)
(* The citation formats of the papers page (docs/src/pages/papers.tsx).    *)
(* A string is a sequence of one-character strings; a field that is        *)
(* absent or empty, which JavaScript takes for false, is <<>>.             *)
(***************************************************************************)
\* positions at which sep occurs in str
Occurrences(str, sep) ==
    {i \in 1..(Len(str) - Len(sep) + 1) :
        SubSeq(str, i, i + Len(sep) - 1) = sep}

\* str.split(sep), for a sep that is not empty
RECURSIVE Split(_, _)
Split(str, sep) ==
    IF Occurrences(str, sep) = {} THEN <<str>>
    ELSE LET i == CHOOSE i \in Occurrences(str, sep) :
                      \A j \in Occurrences(str, sep) : i <= j
         IN  <<SubSeq(str, 1, i - 1)>>
                 \o Split(SubSeq(str, i + Len(sep), Len(str)), sep)

\* array.join(sep)
RECURSIVE Join(_, _)
Join(array, sep) ==
    IF array = <<>> THEN <<>>
    ELSE IF Len(array) = 1 THEN array[1]
    ELSE array[1] \o sep \o Join(Tail(array), sep)

\* `${n}` of a natural number
RECURSIVE NumberToString(_)
NumberToString(n) ==
    IF n < 10 THEN <<Digits[n + 1]>>
    ELSE NumberToString(n \div 10) \o <<Digits[(n % 10) + 1]>>

FormattedAuthorsAboveSix(authors) ==
    IF Len(authors) > 6
    THEN Join(SubSeq(authors, 1, 6), <<",", " ">>)
             \o <<",", " ", ".", ".", ".", " ">> \o authors[Len(authors)]
    ELSE Join(authors, <<",", " ">>)

\* formattedAuthors of generateAPA
FormattedAuthors(authors) ==
    IF Len(authors) > 7
    THEN Join(SubSeq(authors, 1, 6), <<",", " ">>)
             \o <<",", " ", ".", ".", ".", " ">> \o authors[Len(authors)]
    ELSE Join(authors, <<",", " ">>)

\* generateAPA(paper)
GenerateAPA(paper) ==
    LET authors  == Split(paper.authors, <<",", " ">>)
        citation == FormattedAuthors(authors)
                        \o <<" ", "(">> \o NumberToString(paper.year)
                        \o <<")", ".", " ">> \o paper.title \o <<".", " ">>
        journal  == IF paper.journal # <<>>
                    THEN paper.journal \o <<".", " ">> ELSE <<>>
        link     == IF paper.doi # <<>>
                    THEN <<"h", "t", "t", "p", "s", ":", "/", "/",
                           "d", "o", "i", ".", "o", "r", "g", "/">> \o paper.doi
                    ELSE IF paper.url # <<>> THEN paper.url
                    ELSE <<>>
    IN  citation \o journal \o link

(***************************************************************************)
(* SpecApa: generateAPA on the papers of up to MaxAuthors authors.  The    *)
(* author string of a paper is the names of its authors with ", " between  *)
(* them; author i is named by letter i of the alphabet, alone or with a    *)
(* suffix after a comma that no blank follows.  The input is the paper     *)
(* with, for the properties, the list of the names it was written from.    *)
(***************************************************************************)
MaxAuthors == 9

NameOf(i, suffixed) ==
    IF suffixed THEN <<UpperCase[i], ",", "J", "r">> ELSE <<UpperCase[i]>>

AuthorLists ==
    UNION {{[i \in 1..n |-> NameOf(i, suffixed[i])] :
               suffixed \in [1..n -> BOOLEAN]} : n \in 1..MaxAuthors}

Papers ==
    {[paper |-> [authors |-> Join(authorList, <<",", " ">>),
                 year    |-> 2017,
                 title   |-> <<"T">>,
                 journal |-> journal,
                 doi     |-> doi,
                 url     |-> url],
      authorList |-> authorList] :
        authorList \in AuthorLists,
        journal \in {<<>>, <<"N">>},
        doi \in {<<>>, <<"1", "0", ".", "1", "/", "x">>},
        url \in {<<>>, <<"u">>}}

InitApa ==
    /\ InitChat
    /\ selectedDomains = {}
    /\ newDomain = <<>>
    /\ input \in Papers
    /\ output = {}

\* getCitation(paper, 'apa'): generateAPA(input.paper) is called and returns
GetCitationApa ==
    /\ output = {}
    /\ output' = {GenerateAPA(input.paper)}
    /\ UNCHANGED <<input, selectorVars, storeVars, paneVars>>

NextApa == GetCitationApa

SpecApa == InitApa /\ [][NextApa]_vars

(***************************************************************************)
(* Vocabulary of the properties.                                           *)
(***************************************************************************)
\* call r is suspended at its await
Pending(r) == r \in DOMAIN calls /\ ~calls[r].settled

\* the request of call r is in flight: issued, not aborted, not yet settled
InFlight(r) == Pending(r) /\ ~calls[r].aborted

\* a later sendMessage was made on the conversation of call r
Superseded(r) ==
    \E r2 \in DOMAIN calls :
        r2 > r /\ calls[r2].conversation = calls[r].conversation

\* positions of the placeholder messages of conversation object o
Placeholders(o) ==
    {i \in DOMAIN heap[o].messages :
        heap[o].messages[i].id.kind = "assistant-placeholder"}

\* number of real assistant replies in a message list
Replies(messages) ==
    Cardinality({i \in DOMAIN messages : messages[i].id.kind = "assistant"})

\* this step is the continuation of call r and appends its reply
AppendsReply(r) ==
    /\ Pending(r)
    /\ calls'[r].settled
    /\ Replies(heap'[calls[r].conversation].messages)
           > Replies(heap[calls[r].conversation].messages)

\* this step leaves the suspended calls of the conversations whose id is not
\* x as they were: not aborted, in activeRequests, their controller queued
OthersUntouched(x) ==
    \A r \in DOMAIN calls :
        Pending(r) /\ heap[calls[r].conversation].id # x
            => /\ calls'[r].aborted = calls[r].aborted
               /\ r \in activeRequests => r \in activeRequests'
               /\ \A y \in DOMAIN requestQueue :
                      requestQueue[y] = r
                          => /\ y \in DOMAIN requestQueue'
                             /\ requestQueue'[y] = r

\* positions of the placeholder messages of a message list
PlaceholdersOf(messages) ==
    {i \in DOMAIN messages : messages[i].id.kind = "assistant-placeholder"}

\* the user messages of a message list
UserMessagesOf(messages) ==
    SelectSeq(messages, LAMBDA m : m.role = "user")

\* the empty temporary conversations of the store
EmptyTemporary ==
    {i \in DOMAIN conversations :
        /\ heap[conversations[i]].isTemporary
        /\ Len(heap[conversations[i]].messages) = 0}

(***************************************************************************)
(* Well-formedness of the state.                                           *)
(***************************************************************************)
TypeOK ==
    /\ conversations \in Seq(DOMAIN heap)
    /\ currentConversationId \in 0..(nextId - 1)
    /\ selectedModelId \in Models
    /\ chatMode \in Modes \cup {"normal"}
    /\ isLoading \in BOOLEAN
    /\ activeRequests \subseteq DOMAIN calls
    /\ \A id \in DOMAIN requestQueue : Pending(requestQueue[id])
    /\ now \in 0..MaxSteps
    /\ steps \in 0..MaxSteps

(***************************************************************************)
(* C1.  A conversation never has more than one chat request in flight      *)
(* (issued, not aborted, not settled), whatever the interleaving of        *)
(* sendMessage calls and of the settling of earlier requests.              *)
(***************************************************************************)
C1_AtMostOneInFlight ==
    \A o \in DOMAIN heap :
        Cardinality({r \in DOMAIN calls :
                        InFlight(r) /\ calls[r].conversation = o}) <= 1

(***************************************************************************)
(* C2.  A request that a later sendMessage of the same conversation has    *)
(* superseded is cancelled, and no reply built from its response is ever   *)
(* appended.                                                               *)
(***************************************************************************)
C2_SupersededNeverAppended ==
    /\ [](\A r \in DOMAIN calls :
              Pending(r) /\ Superseded(r) => calls[r].aborted)
    /\ [][\A r \in DOMAIN calls : AppendsReply(r) => ~Superseded(r)]_vars

(***************************************************************************)
(* C3.  Every conversation holds at most one placeholder message, in every *)
(* reachable state.                                                        *)
(***************************************************************************)
C3_AtMostOnePlaceholder ==
    \A o \in DOMAIN heap : Cardinality(Placeholders(o)) <= 1

(***************************************************************************)
(* C4.  Once a sendMessage call has settled, its placeholder is gone: the  *)
(* placeholders of a conversation are those of its calls still suspended,  *)
(* none is left behind by a settled call.                                  *)
(***************************************************************************)
C4_NoPlaceholderLeftBehind ==
    \A o \in DOMAIN heap :
        Cardinality(Placeholders(o))
            <= Cardinality({r \in DOMAIN calls :
                               Pending(r) /\ calls[r].conversation = o})

(***************************************************************************)
(* C5.  cancelActiveRequests leaves every suspended call aborted and       *)
(* isLoading false, and no reply is appended afterwards for a call that    *)
(* was suspended when it ran (such a call is no longer in activeRequests). *)
(***************************************************************************)
C5_CancelAbortsEverything ==
    /\ [][CancelActiveRequests =>
             /\ \A r \in DOMAIN calls : Pending(r) => calls'[r].aborted
             /\ ~isLoading']_vars
    /\ [][\A r \in DOMAIN calls :
             Pending(r) /\ r \notin activeRequests => ~AppendsReply(r)]_vars

C7_TimeoutSetsError ==
    [][\A r \in DOMAIN calls :
          SettleRejected(r, "timeout") => error' # NoError]_vars

(***************************************************************************)
(* C8.  The store never holds more than one empty temporary conversation.  *)
(***************************************************************************)
C8_AtMostOneEmptyTemporary == Cardinality(EmptyTemporary) <= 1

(***************************************************************************)
(* C9.  The conversation list in localStorage holds no temporary           *)
(* conversation, and a conversation that is temporary enters the list only *)
(* in the step that gives it its first message and makes it permanent.     *)
(***************************************************************************)
C9_StorageHoldsNoTemporary ==
    /\ [](\A i \in DOMAIN storage.conversations :
              ~storage.conversations[i].isTemporary)
    /\ [][\A o \in DOMAIN heap :
             /\ heap[o].isTemporary
             /\ \E i \in DOMAIN storage'.conversations :
                    storage'.conversations[i].id = heap[o].id
             => /\ Len(heap[o].messages) = 0
                /\ Len(heap'[o].messages) >= 1
                /\ ~heap'[o].isTemporary]_vars

\* localStorage was saved while the store held a temporary conversation:
\* the list has a temporary conversation before a conversation that is in
\* localStorage
C9_Witness ==
    \E i, j \in DOMAIN conversations :
        /\ i < j
        /\ heap[conversations[i]].isTemporary
        /\ \E k \in DOMAIN storage.conversations :
               storage.conversations[k].id = heap[conversations[j]].id

(***************************************************************************)
(* C10.  A conversation with a message has chatModeLocked = true and       *)
(* isTemporary = false, and a locked conversation stays locked and keeps   *)
(* its chatMode under every later step.                                    *)
(***************************************************************************)
C10_ModeLockedForGood ==
    /\ [](\A o \in DOMAIN heap :
              Len(heap[o].messages) >= 1
                  => heap[o].chatModeLocked /\ ~heap[o].isTemporary)
    /\ [][\A o \in DOMAIN heap :
             heap[o].chatModeLocked
                 => /\ heap'[o].chatModeLocked
                    /\ heap'[o].chatMode = heap[o].chatMode]_vars

\* a locked conversation whose mode differs from the global mode (set by a
\* later setChatMode) and that has received a further message since
C10_Witness ==
    \E o \in DOMAIN heap :
        /\ heap[o].chatModeLocked
        /\ heap[o].chatMode # chatMode
        /\ \E i \in DOMAIN heap[o].messages :
               /\ i > 1
               /\ heap[o].messages[i].role = "user"

C12_DeleteElectsMostRecent ==
    [][\A id \in 1..(nextId - 1) :
          DeleteConversation(id) =>
              /\ FindConversation(heap', conversations', id) = 0
              /\ IF currentConversationId = id
                 THEN IF conversations' = <<>>
                      THEN currentConversationId' = NoId
                      ELSE \E i \in DOMAIN conversations' :
                              /\ heap'[conversations'[i]].id = currentConversationId'
                              /\ \A j \in DOMAIN conversations' :
                                     heap'[conversations'[j]].updatedAt
                                         <= heap'[conversations'[i]].updatedAt
                 ELSE currentConversationId' = currentConversationId]_vars

(***************************************************************************)
(* C13.  Requests of different conversations are independent.  A step of   *)
(* a sendMessage call on conversation X (its synchronous part or its       *)
(* continuation) leaves every suspended call of a conversation with        *)
(* another id as it was: not aborted if it was not, in activeRequests if   *)
(* it was, its controller in requestQueue if it was.  And the reply of a   *)
(* call that resolves with success, not aborted and still in               *)
(* activeRequests, is appended to the message list of the conversation the *)
(* call was made on, and to no other, whichever conversation is current.   *)
(***************************************************************************)
C13_ConversationsAreIndependent ==
    /\ [][(\E c \in Texts : SendMessage(c))
             => OthersUntouched(currentConversationId')]_vars
    /\ [][\A r1 \in DOMAIN calls :
             Pending(r1) /\ calls'[r1].settled
                 => OthersUntouched(heap[calls[r1].conversation].id)]_vars
    /\ [][\A r \in DOMAIN calls :
             InFlight(r) /\ r \in activeRequests /\ SettleResolved(r, "ok")
                 => LET o == calls[r].conversation
                    IN  /\ Len(heap'[o].messages) >= 1
                        /\ heap'[o].messages[Len(heap'[o].messages)].id.kind
                               = "assistant"
                        /\ Replies(heap'[o].messages)
                               = Replies(heap[o].messages) + 1
                        /\ \A o2 \in DOMAIN heap \ {o} : heap'[o2] = heap[o2]]_vars

\* the reply of a call has been appended to its conversation while a call of
\* another conversation, the current one, stays in flight (isLoading was
\* reset by the continuation of the first)
C13_Witness ==
    \E r, r2 \in DOMAIN calls :
        /\ r < r2
        /\ heap[calls[r].conversation].id # heap[calls[r2].conversation].id
        /\ calls[r].settled /\ ~calls[r].aborted
        /\ Replies(heap[calls[r].conversation].messages) >= 1
        /\ InFlight(r2) /\ r2 \in activeRequests
        /\ requestQueue[heap[calls[r2].conversation].id] = r2
        /\ currentConversationId = heap[calls[r2].conversation].id
        /\ ~isLoading

(***************************************************************************)
(* C14.  When setSelectedModel(m) returns, the model id held in            *)
(* localStorage is m, whether the current conversation is none, temporary  *)
(* or permanent.                                                           *)
(***************************************************************************)
C14_ModelChoiceIsStored ==
    [][\A m \in Models :
          SetSelectedModel(m) => storage'.selectedModel = m]_vars

(***************************************************************************)
(* C15.  openPdf is handed only bytes that are at least four and start     *)
(* with %PDF (37 80 68 70), by the base64 path and by the download path.   *)
(* Data that starts otherwise ends in the format error of its path, which  *)
(* is caught: on the base64 path by the fallback to the download, on the   *)
(* download path by the alert; no call ends without one of the two.        *)
(***************************************************************************)
PdfMagic == <<37, 80, 68, 70>>

StartsWithPdf(bytes) == Len(bytes) >= 4 /\ SubSeq(bytes, 1, 4) = PdfMagic

\* the answers of .../view whose base64 text is decoded
Decodable ==
    {response \in ViewResponses :
        /\ response.status = "ok"
        /\ response.json
        /\ ~response.data.use_download
        /\ response.data.error \notin TooLargeTexts
        /\ response.data.file_size <= OneMB
        /\ response.data.base64 # NoText
        /\ \A i \in DOMAIN response.data.base64 :
               \/ response.data.base64[i] \in Range(Base64Alphabet)
               \/ /\ i >= Len(response.data.base64) - 1
                  /\ \A j \in i..Len(response.data.base64) :
                         response.data.base64[j] = "="
        /\ Len(response.data.base64) % 4 = 0}

ViewerUntouched == UNCHANGED <<currentPdf, isViewerOpen>>

\* what the two paths can end with, over all the answers of the server
Base64Outcomes == {LoadDocumentViaBase64(response) : response \in ViewResponses}

DownloadOutcomes ==
    {LoadDocumentViaDownload(response) : response \in DownloadResponses}

C15_OnlyPdfReachesTheViewer ==
    /\ [](isViewerOpen => StartsWithPdf(currentPdf.base64Data))
    /\ [](\A response \in Decodable :
             LET bytes   == Atob(response.data.base64).bytes
                 outcome == LoadDocumentViaBase64(response)
             IN  IF StartsWithPdf(bytes)
                 THEN ~outcome.threw /\ outcome.bytes = bytes
                 ELSE /\ outcome.threw
                      /\ outcome.message = "Received data is not a valid PDF file")
    /\ [](\A response \in DownloadResponses :
             response.status = "ok" =>
                LET outcome == LoadDocumentViaDownload(response)
                IN  IF StartsWithPdf(response.bytes)
                    THEN ~outcome.threw /\ outcome.bytes = response.bytes
                    ELSE /\ outcome.threw
                         /\ outcome.message = "Downloaded file is not a valid PDF")
    /\ [][\A l \in DOMAIN loads :
            /\ \A outcome \in Base64Outcomes :
                 AfterBase64(l, outcome) =>
                    IF outcome.threw
                    THEN /\ loads'[l].pc = "download"
                         /\ ViewerUntouched
                         /\ alert' = NoAlert
                    ELSE /\ isViewerOpen'
                         /\ currentPdf'.base64Data = outcome.bytes
            /\ \A outcome \in DownloadOutcomes :
                 AfterDownload(l, outcome) =>
                    IF outcome.threw
                    THEN /\ alert' = outcome.message
                         /\ Len(loads') = Len(loads) - 1
                         /\ ViewerUntouched
                    ELSE /\ isViewerOpen'
                         /\ currentPdf'.base64Data = outcome.bytes]_vars

\* the viewer shows a document that the download delivered after the base64
\* path had refused data of another format
C15_Witness ==
    /\ isViewerOpen
    /\ currentPdf.base64Data = <<37, 80, 68, 70, 45>>
    /\ loads = <<>>
    /\ alert = NoAlert
    /\ highlightPage = 5

(***************************************************************************)
(* C16.  A call of loadDocumentForSource goes to the download exactly when *)
(* its base64 path threw, which it does on the size signal of the server,  *)
(* on a reported size above 1 MB, on invalid base64 and on a bad header;   *)
(* otherwise the call ends with the viewer open.  When the download fails  *)
(* too, the call ends with one alert and currentPdf and isViewerOpen as    *)
(* they were.                                                              *)
(***************************************************************************)
C16_DownloadOnlyAfterBase64Threw ==
    /\ [](\A response \in ViewResponses :
             (response.status = "ok" /\ response.json) =>
                LET data  == response.data
                    threw == LoadDocumentViaBase64(response).threw
                IN  /\ (\/ data.use_download
                        \/ data.error \in TooLargeTexts
                        \/ data.file_size > OneMB
                        \/ data.base64 # NoText /\ response \notin Decodable)
                       => threw
                    /\ (response \in Decodable
                          /\ ~StartsWithPdf(Atob(data.base64).bytes))
                       => threw)
    /\ [][\A l \in DOMAIN loads :
            /\ \A outcome \in Base64Outcomes :
                 AfterBase64(l, outcome) =>
                    LET download == loads' = [loads EXCEPT ![l].pc = "download"]
                    IN  /\ download <=> outcome.threw
                        /\ download => ViewerUntouched /\ alert' = NoAlert
                        /\ ~download
                              => loads' = RemoveAt(loads, l) /\ isViewerOpen'
            /\ \A outcome \in DownloadOutcomes :
                 (AfterDownload(l, outcome) /\ outcome.threw) =>
                    /\ alert = NoAlert
                    /\ alert' = outcome.message
                    /\ alert' # NoAlert
                    /\ loads' = RemoveAt(loads, l)
                    /\ ViewerUntouched]_vars

\* both paths of a call failed while the viewer showed an earlier document:
\* the alert is on screen and the viewer still shows that document
C16_Witness ==
    /\ alert = "Failed to download document"
    /\ isViewerOpen
    /\ currentPdf.id = "A"
    /\ loads = <<>>
    /\ highlightPage = 1

(***************************************************************************)
(* C17.  A click on citation number i of an assistant message opens        *)
(* element i of the search results of that message, and a click on the     *)
(* source marker docIndex in its text opens the first result of its        *)
(* docIndex-th document group, also when an earlier message of the         *)
(* conversation has search results.                                       *)
(***************************************************************************)
Opens(result) == loads' = Append(loads, [source |-> result, pc |-> "view"])

C17_ClickResolvesInItsOwnMessage ==
    [][\A mi \in DOMAIN PaneMessages :
         LET own == PaneMessages[mi]
         IN  /\ \A ci \in 1..(MaxResults + 1) :
                  (/\ HandleCitationPdfOpen(mi, ci)
                   /\ own.formattedCitations[ci].index \in DOMAIN own.searchResults)
                  => Opens(own.searchResults[own.formattedCitations[ci].index])
             /\ \A d \in 1..MaxResults :
                  HandleDocumentLinkClick(mi, d)
                  => Opens(GroupedResults(own.searchResults)[d].results[1])]_vars

(***************************************************************************)
(* C18.  The groups of the search results of a message: one group for each *)
(* document id of the results, in the order in which the documents first   *)
(* appear, docIndex the position of the group counted from 1, and the      *)
(* results of a group the results of its document in their order, so that  *)
(* every result is in one group.  The regrouping of handleDocumentLinkClick*)
(* gives the same groups, and a click on a group opens its first result.   *)
(***************************************************************************)
DocumentIds(searchResults) ==
    {searchResults[i].document.id : i \in DOMAIN searchResults}

FirstAppearance(searchResults, id) ==
    CHOOSE i \in DOMAIN searchResults :
        /\ searchResults[i].document.id = id
        /\ \A j \in 1..(i - 1) : searchResults[j].document.id # id

ResultsOfDocument(searchResults, id) ==
    LET OfDocument(result) == result.document.id = id
    IN  SelectSeq(searchResults, OfDocument)

GroupedAsSpecified(searchResults) ==
    LET groups == GroupedResults(searchResults)
    IN  /\ Len(groups) = Cardinality(DocumentIds(searchResults))
        /\ {groups[g].document.id : g \in DOMAIN groups}
              = DocumentIds(searchResults)
        /\ \A g \in DOMAIN groups :
              /\ groups[g].docIndex = g
              /\ groups[g].results
                    = ResultsOfDocument(searchResults, groups[g].document.id)
              /\ DocumentMap(searchResults)[g] = groups[g].results
        /\ \A g, h \in DOMAIN groups :
              g < h => FirstAppearance(searchResults, groups[g].document.id)
                          < FirstAppearance(searchResults, groups[h].document.id)

C18_OneGroupPerDocument ==
    /\ [](\A mi \in DOMAIN PaneMessages :
             "searchResults" \in DOMAIN PaneMessages[mi]
                => GroupedAsSpecified(PaneMessages[mi].searchResults))
    /\ [][\A mi \in DOMAIN PaneMessages : \A g \in 1..MaxResults :
             HandleSourceClick(mi, g) =>
                LET searchResults == PaneMessages[mi].searchResults
                    id == GroupedResults(searchResults)[g].document.id
                IN  Opens(searchResults[FirstAppearance(searchResults, id)])]_vars

\* the results of document A lie on both sides of the result of document B,
\* and the click on the group of B opened it
C18_Witness ==
    /\ \E mi \in DOMAIN PaneMessages :
          /\ "searchResults" \in DOMAIN PaneMessages[mi]
          /\ Len(PaneMessages[mi].searchResults) = 3
          /\ PaneMessages[mi].searchResults[1].document.id = "A"
          /\ PaneMessages[mi].searchResults[2].document.id = "B"
          /\ PaneMessages[mi].searchResults[3].document.id = "A"
          /\ Len(loads) = 1
          /\ loads[1].source = PaneMessages[mi].searchResults[2]

(***************************************************************************)
(* C19.  The conversation_history of a chat request is the list of the     *)
(* messages (role and content) that preceded the user message the call     *)
(* appended, and it holds no placeholder ('...'), whatever the             *)
(* interleaving of the sends on a conversation.                            *)
(***************************************************************************)
C19_HistoryIsThePrecedingTurns ==
    /\ [][\A c \in Texts :
             SendMessage(c) /\ Len(calls') > Len(calls)
                 => LET r      == Len(calls')
                        o      == calls'[r].conversation
                        before == IF o \in DOMAIN heap
                                  THEN heap[o].messages ELSE <<>>
                    IN  calls'[r].request.conversation_history
                            = [i \in DOMAIN before |->
                                  [role    |-> before[i].role,
                                   content |-> before[i].content]]]_vars
    /\ [](\A r \in DOMAIN calls :
              Pending(r)
                  => \A i \in DOMAIN calls[r].request.conversation_history :
                         calls[r].request.conversation_history[i].content
                             # Placeholder)

(***************************************************************************)
(* C20.  When the request of a call that was not cancelled (not aborted,   *)
(* still in activeRequests) fails by a network error or by a response with *)
(* success = false, the continuation removes a placeholder from the        *)
(* conversation, keeps its user messages, appends no reply, writes a       *)
(* message to the error slot and issues no request: there is no retry.     *)
(***************************************************************************)
C20_FailureIsSurfacedOnce ==
    [][\A r \in DOMAIN calls :
          /\ InFlight(r) /\ r \in activeRequests
          /\ SettleRejected(r, "network") \/ SettleResolved(r, "refused")
          => LET o == calls[r].conversation
             IN  /\ Cardinality(PlaceholdersOf(heap'[o].messages))
                        = Cardinality(PlaceholdersOf(heap[o].messages)) - 1
                 /\ UserMessagesOf(heap'[o].messages)
                        = UserMessagesOf(heap[o].messages)
                 /\ Replies(heap'[o].messages) = Replies(heap[o].messages)
                 /\ error' \in {NetworkRejection.message, RefusedError.message}
                 /\ DOMAIN calls' = DOMAIN calls
                 /\ \A r2 \in DOMAIN calls : ~Pending(r2) => calls'[r2].settled]_vars

\* a call that was not cancelled has failed: its conversation holds its user
\* message alone, without placeholder or reply, and the error slot holds
\* the message of the failure
C20_Witness ==
    \E r \in DOMAIN calls :
        /\ calls[r].settled /\ ~calls[r].aborted
        /\ error \in {NetworkRejection.message, RefusedError.message}
        /\ Len(heap[calls[r].conversation].messages) = 1
        /\ heap[calls[r].conversation].messages[1].role = "user"

(***************************************************************************)
(* C21.  A request sent from a conversation whose mode is locked carries   *)
(* as chat_mode the chatMode of that conversation, whatever setChatMode    *)
(* and selectConversation did between its first message and the send.      *)
(***************************************************************************)
C21_RequestCarriesTheLockedMode ==
    [][\A c \in Texts :
          SendMessage(c) /\ Len(calls') > Len(calls)
              => LET r == Len(calls')
                     o == calls'[r].conversation
                 IN  heap'[o].chatModeLocked
                        => calls'[r].request.chat_mode = heap'[o].chatMode]_vars

(***************************************************************************)
(* C22.  isLoading is true exactly in the states in which a request of     *)
(* some conversation is in flight; in particular the continuation of one   *)
(* call does not clear it while the request of another is in flight.       *)
(***************************************************************************)
C22_LoadingWhileInFlight ==
    isLoading <=> \E r \in DOMAIN calls : InFlight(r)

(***************************************************************************)
(* C23.  While a conversation is current, the global selectedModelId is    *)
(* the modelId of that conversation (and so the model_id of a request is   *)
(* the model of the conversation it is sent from).  The claim says the     *)
(* same of the selected domains, which follow the same code paths.         *)
(***************************************************************************)
C23_SelectionFollowsCurrent ==
    /\ [](CurrentConversation # 0
             => selectedModelId = heap[CurrentConversation].modelId)
    /\ [][\A c \in Texts :
             SendMessage(c) /\ Len(calls') > Len(calls)
                 => calls'[Len(calls')].request.model_id
                        = heap'[calls'[Len(calls')].conversation].modelId]_vars

(***************************************************************************)
(* C24.  No conversation written to localStorage holds a placeholder       *)
(* message, whichever action saved and whatever calls are suspended.       *)
(***************************************************************************)
C24_NoPlaceholderIsStored ==
    \A i \in DOMAIN storage.conversations :
        PlaceholdersOf(storage.conversations[i].messages) = {}

(***************************************************************************)
(* C25.  Of two overlapping calls of loadDocumentForSource the one of the  *)
(* later click decides what the viewer shows: when the last suspended call *)
(* opens the viewer, the highlight page, which the most recent click set,  *)
(* is the page of the source whose document it opens.                      *)
(***************************************************************************)
\* the page the handlers of the results panel highlight for a source
HighlightOf(source) ==
    IF HasPage(source.page) /\ source.page > 0 THEN source.page ELSE 1

\* this step is call l opening the viewer
Opening(l) ==
    \/ \E outcome \in Base64Outcomes : ~outcome.threw /\ AfterBase64(l, outcome)
    \/ \E outcome \in DownloadOutcomes :
           ~outcome.threw /\ AfterDownload(l, outcome)

C25_LastClickWins ==
    [][\A l \in DOMAIN loads :
          (Len(loads) = 1 /\ Opening(l))
             => /\ currentPdf'.id = loads[l].source.document.id
                /\ highlightPage' = HighlightOf(loads[l].source)]_vars

(***************************************************************************)
(* C26.  A click on the source marker of a document group, in the results  *)
(* panel or in the text of the answer, opens the first result of the group *)
(* at the first page of the marker's page list, which is the sorted pages  *)
(* of the group, and at page 1 when there is no such page or it is not     *)
(* positive.  Stated of the first answer with results, where the marker    *)
(* in the text finds its own groups.                                       *)
(***************************************************************************)
MarkerPage(group) ==
    IF group.pages = <<>> \/ group.pages[1] <= 0 THEN 1 ELSE group.pages[1]

FirstAnswerWithResults ==
    FindMessage({i \in DOMAIN PaneMessages : HasSearchResults(PaneMessages[i])})

C26_MarkerOpensItsFirstPage ==
    [][\A g \in 1..MaxResults :
          LET mi == FirstAnswerWithResults
          IN  (mi # 0 /\ (HandleSourceClick(mi, g) \/ HandleDocumentLinkClick(mi, g)))
                 => LET group == GroupedResults(PaneMessages[mi].searchResults)[g]
                    IN  /\ Opens(group.results[1])
                        /\ highlightPage' = MarkerPage(group)]_vars

(***************************************************************************)
(* C27.  For every valid base64 input the chunked decoder returns exactly  *)
(* the byte sequence of the single-pass decoder: the same length and the   *)
(* same bytes, on inputs that end in '=' padding too.                      *)
(***************************************************************************)
C27_ChunkedEqualsSinglePass ==
    \A chunked \in output : \A single \in output :
        (chunked.by = "chunked" /\ single.by = "single pass")
            => chunked.result = single.result

(***************************************************************************)
(* C28.  In every state that toggleDomain, toggleGroup, addCustomDomain    *)
(* and clearSelection reach, a group is reported fully selected exactly    *)
(* when every domain of it is selected (and then the count shown is the    *)
(* number of its domains); toggleGroup on a fully selected group           *)
(* deselects all of its domains, and on any other group selects all of     *)
(* them.                                                                   *)
(***************************************************************************)
DomainsOf(groupKey) == Range(domainGroups[groupKey].domains)

C28_GroupIsFullOrFilled ==
    /\ [](\A groupKey \in DomainGroupKey :
             /\ IsGroupFullySelected(groupKey)
                    <=> DomainsOf(groupKey) \subseteq selectedDomains
             /\ IsGroupFullySelected(groupKey)
                    <=> GetSelectedCountInGroup(groupKey)
                            = Len(domainGroups[groupKey].domains))
    /\ [][\A groupKey \in DomainGroupKey :
             ToggleGroup(groupKey)
                => IF DomainsOf(groupKey) \subseteq selectedDomains
                   THEN /\ selectedDomains' \cap DomainsOf(groupKey) = {}
                        /\ selectedDomains' \ DomainsOf(groupKey)
                               = selectedDomains \ DomainsOf(groupKey)
                   ELSE /\ DomainsOf(groupKey) \subseteq selectedDomains'
                        /\ selectedDomains' \ DomainsOf(groupKey)
                               = selectedDomains \ DomainsOf(groupKey)]_vars

\* the preprints are all selected, which takes arxiv.org of the core group
\* with them, next to a domain that was typed in
C28_Witness ==
    /\ IsGroupFullySelected("preprints")
    /\ ~IsGroupFullySelected("core_academic")
    /\ GetSelectedCountInGroup("core_academic") = 1
    /\ "doi.org" \in selectedDomains
    /\ newDomain = <<>>

(***************************************************************************)
(* C29.  The APA citation lists all the authors when they are at most      *)
(* seven, and the first six, '...' and the last one when they are more;    *)
(* the author string 'A, B, C, D, E, F, G, H' yields                       *)
(* 'A, B, C, D, E, F, ... H'.                                              *)
(***************************************************************************)
\* the names from the first to the last, each followed by a comma and a
\* blank except the last
RECURSIVE Listed(_, _, _)
Listed(names, first, last) ==
    IF first > last THEN <<>>
    ELSE IF first = last THEN names[first]
    ELSE names[first] \o <<",", " ">> \o Listed(names, first + 1, last)

StartsWith(str, prefix) ==
    /\ Len(str) >= Len(prefix)
    /\ SubSeq(str, 1, Len(prefix)) = prefix

\* the citation starts with these authors, followed by the year in brackets
AuthorsAre(citation, authors) == StartsWith(citation, authors \o <<" ", "(">>)

EightAuthors ==
    <<"A", ",", " ", "B", ",", " ", "C", ",", " ", "D", ",", " ",
      "E", ",", " ", "F", ",", " ", "G", ",", " ", "H">>

SixAndTheLast ==
    <<"A", ",", " ", "B", ",", " ", "C", ",", " ", "D", ",", " ",
      "E", ",", " ", "F", ",", " ", ".", ".", ".", " ", "H">>

C29_ApaAuthors ==
    \A citation \in output :
        LET names == input.authorList
            n     == Len(names)
        IN  /\ n <= 7 => AuthorsAre(citation, Listed(names, 1, n))
            /\ n > 7 => AuthorsAre(citation,
                            Listed(names, 1, 6)
                                \o <<",", " ", ".", ".", ".", " ">> \o names[n])
            /\ input.paper.authors = EightAuthors
                   => AuthorsAre(citation, SixAndTheLast)

\* the citation of the paper of the example, which has a journal and a DOI
C29_Witness ==
    /\ input.paper.authors = EightAuthors
    /\ input.paper.journal # <<>>
    /\ input.paper.doi # <<>>
    /\ output # {}

(***************************************************************************)
(* C30.  requestQueue has an entry for a conversation id exactly while a   *)
(* request of that conversation is in flight, and the entry is the         *)
(* controller of the newest call on the conversation; the continuation of  *)
(* an older call, which that newer call superseded, leaves the entry.      *)
(***************************************************************************)
C30_QueueHoldsTheNewestRequest ==
    /\ \A r \in DOMAIN calls :
          InFlight(r)
             => /\ heap[calls[r].conversation].id \in DOMAIN requestQueue
                /\ requestQueue[heap[calls[r].conversation].id] = r
                /\ ~Superseded(r)
    /\ \A id \in DOMAIN requestQueue : InFlight(requestQueue[id])

====
